---- MODULE Spec2Model ----
(***************************************************************************)
(* Model of the Huffman codec in huffman.hpp (namespace hf): the fixed     *)
(* width primitives to_bytes / from_bytes / to_bits / from_bits, the frame *)
(* writer and reader write_data / read_data, and encode / decode.          *)
(*                                                                         *)
(* Conventions.  A std::vector<bool> is a sequence over {0, 1}; a          *)
(* std::vector<uint8_t> and a file are sequences over 0..255.  The code    *)
(* indexes from 0, TLA+ sequences from 1: every cursor of the model        *)
(* (start, i, pos) keeps the code's 0-based value and element k of the     *)
(* code is element k + 1 of the sequence.                                  *)
(***************************************************************************)
EXTENDS Integers, Sequences, FiniteSets, TLC

VARIABLES
    little_endian,  \* huffman.hpp:9, fixed by the build's target
    pc,             \* position of the caller in encode / decode / the frame
    data,           \* encode's argument: the symbol sequence
    nodes,          \* encode's working list std::list<Node*>
    encoding_lut,   \* encode's std::map<T, std::vector<bool>>
    out,            \* encode's result (the bit vector handed to write_data)
    file,           \* the bytes write_data has written
    bits,           \* decode's argument / read_data's result
    tree,           \* decode's  Node* tree
    start,          \* decode's  size_t start  (bits consumed by the tree)
    i,              \* decode's loop cursor
    current,        \* decode's  Node* current
    result,         \* decode's result vector
    ub              \* which undefined behaviour the run has executed, if any

vars == <<little_endian, pc, data, nodes, encoding_lut, out, file, bits,
          tree, start, i, current, result, ub>>

----------------------------------------------------------------------------
(* Bounds of the model *)

MaxLen == 4         \* longest symbol sequence given to encode
MaxSymbol == 2      \* the alphabet is 'a' .. 'a' + MaxSymbol
MaxExtraBits == 2   \* most bits a caller appends to an encoded stream
MaxFrameBits == 9   \* longest bit vector given to write_data
MaxGarbage == 1     \* longest value a run returns after undefined behaviour
FirstSymbol == 97   \* the first symbol of the alphabet, 'a'

(* Program constants *)

SizeofT == 1        \* sizeof(T) for T = char, the instantiation of demo.cpp
SizeofU64 == 8      \* sizeof(uint64_t)

Symbols == {FirstSymbol + k : k \in 0..MaxSymbol}

BitSeqs(n) == UNION {[1..k -> {0, 1}] : k \in 0..n}

SymSeqs(n) == UNION {[1..k -> Symbols] : k \in 0..n}

Reverse(s) == [k \in 1..Len(s) |-> s[Len(s) + 1 - k]]

RECURSIVE Pow2(_)
Pow2(n) == IF n = 0 THEN 1 ELSE 2 * Pow2(n - 1)

----------------------------------------------------------------------------
\* 2^24: stands for every uint64 value >= 2^24
Huge == Pow2(24)

(* Object representation.  TLC integers are 32 bits wide, so a uint64 is   *)
(* kept exactly below 2^24 and every larger value is represented by Huge;  *)
(* no vector or file of the model comes near 2^24 elements, so a           *)
(* comparison against a size of the model gives the same answer.           *)

\* byte k (k = 0 the least significant) of the unsigned value v < 2^24
ByteAt(v, k) == IF k >= 3 THEN 0 ELSE (v \div Pow2(8 * k)) % 256

\* ((uint8_t*)&value)[0 .. size-1]: the bytes of value in memory order
ObjectBytes(v, size, le) ==
    [k \in 1..size |-> IF le THEN ByteAt(v, k - 1) ELSE ByteAt(v, size - k)]

\* the value of the object whose bytes in memory order are mem
ObjectValue(mem, le) ==
    LET size == Len(mem)
        sig(k) == IF le THEN mem[k + 1] ELSE mem[size - k]
    IN  IF \E k \in 3..(size - 1) : sig(k) # 0
        THEN Huge
        ELSE (IF size > 0 THEN sig(0) ELSE 0)
             + (IF size > 1 THEN 256 * sig(1) ELSE 0)
             + (IF size > 2 THEN 65536 * sig(2) ELSE 0)

\* a - b in size_t arithmetic (a, b < 2^24): a wrapped difference is >= 2^24
SizeDiff(a, b) == IF a >= b THEN a - b ELSE Huge

\* to_bytes<T>(value)
to_bytes(value, size, le) ==
    LET mem == ObjectBytes(value, size, le)
    IN  IF le THEN [k \in 1..size |-> mem[k]]
              ELSE [k \in 1..size |-> mem[size + 1 - k]]

\* from_bytes<T>(data, start): thrown, or the value read
from_bytes(bytes, st, size, le) ==
    IF SizeDiff(Len(bytes), st) < size
    THEN [thrown |-> TRUE, value |-> 0]
    ELSE [thrown |-> FALSE,
          value |-> ObjectValue([k \in 1..size |-> bytes[st + k]], le)]

\* the 8 bits pushed for one byte, most significant first
ByteBits(byte) == [j \in 1..8 |-> (byte \div Pow2(8 - j)) % 2]

\* to_bits<T>(value)
to_bits(value, size, le) ==
    LET mem == ObjectBytes(value, size, le)
        byte(k) == IF le THEN mem[k + 1] ELSE mem[size - k]
    IN  [n \in 1..(8 * size) |-> ByteBits(byte((n - 1) \div 8))[((n - 1) % 8) + 1]]

\* the byte that from_bits assembles from the 8 bits after position st
BitsByte(bitvec, st) ==
    bitvec[st + 1] * 128 + bitvec[st + 2] * 64 + bitvec[st + 3] * 32
    + bitvec[st + 4] * 16 + bitvec[st + 5] * 8 + bitvec[st + 6] * 4
    + bitvec[st + 7] * 2 + bitvec[st + 8]

\* from_bits<T>(data, start): thrown, or the value read
from_bits(bitvec, st, size, le) ==
    IF SizeDiff(Len(bitvec), st) < size * 8
    THEN [thrown |-> TRUE, value |-> 0]
    ELSE LET mem == [k \in 1..size |->
                        IF le THEN BitsByte(bitvec, st + 8 * (k - 1))
                              ELSE BitsByte(bitvec, st + 8 * (size - k))]
         IN  [thrown |-> FALSE, value |-> ObjectValue(mem, le)]

----------------------------------------------------------------------------
(* The frame: write_data and read_data *)

\* the loop of write_data from index n on; f is what has been written
RECURSIVE write_loop(_, _, _, _, _)
write_loop(bitvec, n, byte, pad, f) ==
    IF n >= Len(bitvec)
    THEN (IF pad THEN Append(f, byte) ELSE f)
    ELSE LET bit == n % 8
             b1 == IF bitvec[n + 1] = 1 THEN byte + Pow2(7 - bit) ELSE byte
         IN  IF bit = 7
             THEN write_loop(bitvec, n + 1, 0, FALSE, Append(f, b1))
             ELSE write_loop(bitvec, n + 1, b1, TRUE, f)

\* write_data(data, out_file): the bytes of the file
write_data(bitvec, le) ==
    write_loop(bitvec, 0, 0, FALSE, to_bytes(Len(bitvec), SizeofU64, le))

\* the loop of read_data from index n on; pos is the file position
RECURSIVE read_loop(_, _, _, _, _, _)
read_loop(f, pos, size, n, byte, acc) ==
    IF n >= size
    THEN [thrown |-> FALSE, value |-> acc]
    ELSE IF n % 8 = 0
         THEN IF pos >= Len(f)
              THEN [thrown |-> TRUE, value |-> <<>>]
              ELSE read_loop(f, pos + 1, size, n + 1, f[pos + 1],
                             Append(acc, (f[pos + 1] \div 128) % 2))
         ELSE read_loop(f, pos, size, n + 1, byte,
                        Append(acc, (byte \div Pow2(7 - (n % 8))) % 2))

\* read_data(in_file): thrown, or the bit vector read
read_data(f, le) ==
    IF Len(f) < SizeofU64
    THEN [thrown |-> TRUE, value |-> <<>>]
    ELSE LET size == from_bytes(SubSeq(f, 1, SizeofU64), 0, SizeofU64, le)
         IN  read_loop(f, SizeofU64, size.value, 0, 0, <<>>)

----------------------------------------------------------------------------
(* Pointers.  A Node* is NULL or points to one node; the nodes of a tree   *)
(* are owned by their parent, so a pointer is modelled by its pointee.     *)

NULL == <<>>

Ptr(node) == <<node>>

Deref(p) == p[1]

Range(s) == {s[k] : k \in 1..Len(s)}

----------------------------------------------------------------------------
(* encode: its local struct Node *)

\* Node(T value, size_t freq)
LeafNode(value, freq) ==
    [end |-> TRUE, values |-> <<value>>, freq |-> freq,
     sub_nodes |-> <<NULL, NULL>>]

\* Node(Node* l, Node* r)
ParentNode(l, r) ==
    [end |-> FALSE, values |-> l.values \o r.values, freq |-> l.freq + r.freq,
     sub_nodes |-> <<Ptr(l), Ptr(r)>>]

\* Node::encode_tree()
RECURSIVE encode_tree(_, _)
encode_tree(node, le) ==
    IF node.end
    THEN <<1>> \o to_bits(node.values[1], SizeofT, le)
    ELSE <<0>> \o encode_tree(Deref(node.sub_nodes[1]), le)
               \o encode_tree(Deref(node.sub_nodes[2]), le)

\* the frequency table: freq_table[data[i]] += 1 for every i
freq_table(d) ==
    [s \in Range(d) |-> Cardinality({k \in 1..Len(d) : d[k] = s})]

\* the keys of a std::map in iteration (ascending) order
RECURSIVE KeysInOrder(_)
KeysInOrder(S) ==
    IF S = {} THEN <<>>
    ELSE LET m == CHOOSE x \in S : \A y \in S : x <= y
         IN  <<m>> \o KeysInOrder(S \ {m})

\* the list filled from the table, one leaf per key, before it is sorted
LeafList(d) ==
    LET ft == freq_table(d)
        keys == KeysInOrder(DOMAIN ft)
    IN  [k \in 1..Len(keys) |-> LeafNode(keys[k], ft[keys[k]])]

\* std::list::sort with the comparator l->freq > r->freq (a stable sort):
\* each element goes behind the elements that do not compare after it
RECURSIVE SortByFreq(_)
SortByFreq(list) ==
    IF list = <<>> THEN <<>>
    ELSE LET n == Len(list)
             e == list[n]
             front == SortByFreq(SubSeq(list, 1, n - 1))
             keep == {k \in 1..(n - 1) : ~(e.freq > front[k].freq)}
             p == Cardinality(keep)
         IN  SubSeq(front, 1, p) \o <<e>> \o SubSeq(front, p + 1, n - 1)

\* encoding_lut[value].push_back(bit) for every value of vals
PushBit(lut, vals, bit) ==
    [s \in (DOMAIN lut) \cup Range(vals) |->
        IF s \in Range(vals)
        THEN Append(IF s \in DOMAIN lut THEN lut[s] ELSE <<>>, bit)
        ELSE lut[s]]

MergeLutSameBit(lut, l, r) == PushBit(PushBit(lut, l.values, 0), r.values, 0)

\* the two loops over l->values and r->values of one merge
MergeLut(lut, l, r) == PushBit(PushBit(lut, l.values, 0), r.values, 1)

InsertPosStrict(list, parent) ==
    IF \E k \in 1..Len(list) : list[k].freq < parent.freq
    THEN CHOOSE k \in 1..Len(list) :
            /\ list[k].freq < parent.freq
            /\ \A j \in 1..(k - 1) : ~(list[j].freq < parent.freq)
    ELSE Len(list) + 1

\* the loop that finds where parent goes: the index of the first node
\* with (*it)->freq <= parent->freq, or the end of the list
InsertPos(list, parent) ==
    IF \E k \in 1..Len(list) : list[k].freq <= parent.freq
    THEN CHOOSE k \in 1..Len(list) :
            /\ list[k].freq <= parent.freq
            /\ \A j \in 1..(k - 1) : ~(list[j].freq <= parent.freq)
    ELSE Len(list) + 1

\* nodes.insert(it, parent)
InsertAt(list, k, node) ==
    SubSeq(list, 1, k - 1) \o <<node>> \o SubSeq(list, k, Len(list))

CodeBitsForward(sequence) == sequence

\* the bits pushed for one symbol: its sequence from the last index down
CodeBits(sequence) == Reverse(sequence)

\* encoding_lut[data[i]] of the output loop: operator[] inserts an empty
\* sequence for a key that is absent
LutAfterLookup(lut, d) ==
    [s \in (DOMAIN lut) \cup Range(d) |->
        IF s \in DOMAIN lut THEN lut[s] ELSE <<>>]

\* the bits the output loop pushes for data[n .. ]
RECURSIVE Payload(_, _, _)
Payload(lut, d, n) ==
    IF n > Len(d) THEN <<>>
    ELSE CodeBits(lut[d[n]]) \o Payload(lut, d, n + 1)

----------------------------------------------------------------------------
(* decode: its local struct Node *)

\* what the constructor Node(data, start) does from position st:
\*   "ok"    the node built and the start it leaves,
\*   "throw" from_bits threw std::runtime_error,
\*   "oob"   data[start++] indexed the vector at or past data.size()
RECURSIVE ParseNode(_, _, _)
ParseNode(bitvec, st, le) ==
    IF st >= Len(bitvec)
    THEN [kind |-> "oob", ptr |-> NULL, start |-> st]
    ELSE IF bitvec[st + 1] = 1
         THEN LET v == from_bits(bitvec, st + 1, SizeofT, le)
              IN  IF v.thrown
                  THEN [kind |-> "throw", ptr |-> NULL, start |-> st + 1]
                  ELSE [kind |-> "ok",
                        ptr |-> Ptr([end |-> TRUE, values |-> <<v.value>>,
                                     sub_nodes |-> <<NULL, NULL>>]),
                        start |-> st + 1 + SizeofT * 8]
         ELSE LET l == ParseNode(bitvec, st + 1, le)
              IN  IF l.kind # "ok" THEN l
                  ELSE LET r == ParseNode(bitvec, l.start, le)
                       IN  IF r.kind # "ok" THEN r
                           ELSE [kind |-> "ok",
                                 ptr |-> Ptr([end |-> FALSE, values |-> <<>>,
                                              sub_nodes |-> <<l.ptr, r.ptr>>]),
                                 start |-> r.start]

\* the bit vectors a caller hands to decode once encode has returned o:
\* o itself, o cut short, and o with bits appended
DecodeInputs(o) ==
    {SubSeq(o, 1, n) : n \in 0..Len(o)} \cup {o \o e : e \in BitSeqs(MaxExtraBits)}

----------------------------------------------------------------------------
(* The state machine *)

Init ==
    /\ little_endian \in BOOLEAN
    /\ pc = "start"
    /\ data \in SymSeqs(MaxLen)
    /\ nodes = <<>>
    /\ encoding_lut = <<>>
    /\ out = <<>>
    /\ file = <<>>
    /\ bits = <<>>
    /\ tree = NULL
    /\ start = 0
    /\ i = 0
    /\ current = NULL
    /\ result = <<>>
    /\ ub = "none"

\* encode, up to the sort of the list
EncodeInit ==
    /\ pc = "start"
    /\ nodes' = SortByFreq(LeafList(data))
    /\ encoding_lut' = <<>>
    /\ pc' = "merge"
    /\ UNCHANGED <<little_endian, data, out, file, bits, tree, start, i,
                   current, result, ub>>

\* one iteration of the merge loop that does not break
MergeStep ==
    /\ pc = "merge"
    /\ Len(nodes) >= 2
    /\ LET n == Len(nodes)
           l == nodes[n]
           r == nodes[n - 1]
           rest == SubSeq(nodes, 1, n - 2)
           parent == ParentNode(l, r)
       IN  /\ encoding_lut' = MergeLut(encoding_lut, l, r)
           /\ nodes' = InsertAt(rest, InsertPos(rest, parent), parent)
    /\ UNCHANGED <<little_endian, pc, data, out, file, bits, tree, start, i,
                   current, result, ub>>

\* the iteration that breaks.  On an empty list std::prev(nodes.end())
\* decrements the begin iterator, which is undefined: the run stops, or
\* the iterator stays at end() and the loop breaks
MergeBreak ==
    /\ pc = "merge"
    /\ Len(nodes) <= 1
    /\ IF Len(nodes) = 1
       THEN pc' = "built" /\ ub' = ub
       ELSE pc' \in {"built", "encode_crashed"} /\ ub' = "prev_of_begin"
    /\ UNCHANGED <<little_endian, data, nodes, encoding_lut, out, file, bits,
                   tree, start, i, current, result>>

\* encode after the loop.  On an empty list *nodes.begin() reads end(),
\* which is undefined: the run stops, or encode returns some bit vector
EncodeEmit ==
    /\ pc = "built"
    /\ IF Len(nodes) >= 1
       THEN LET lut == LutAfterLookup(encoding_lut, data)
            IN  /\ out' = encode_tree(nodes[1], little_endian) \o Payload(lut, data, 1)
                /\ encoding_lut' = lut
                /\ pc' = "encoded"
                /\ ub' = ub
       ELSE /\ \/ pc' = "encode_crashed" /\ out' = out
               \/ pc' = "encoded" /\ out' \in BitSeqs(MaxGarbage)
            /\ encoding_lut' = encoding_lut
            /\ ub' = "deref_end"
    /\ nodes' = <<>>
    /\ UNCHANGED <<little_endian, data, file, bits, tree, start, i, current,
                   result>>

\* decode, up to the construction of the tree.  An index past the end of
\* the vector is undefined: the run stops, or decode returns some vector
DecodeTree ==
    /\ pc = "encoded"
    /\ \E input \in DecodeInputs(out) :
        LET p == ParseNode(input, 0, little_endian)
        IN  /\ bits' = input
            /\ CASE p.kind = "ok" ->
                        /\ tree' = p.ptr
                        /\ start' = p.start
                        /\ i' = p.start
                        /\ current' = p.ptr
                        /\ pc' = "walk"
                        /\ UNCHANGED <<result, ub>>
                 [] p.kind = "throw" ->
                        /\ pc' = "error"
                        /\ UNCHANGED <<tree, start, i, current, result, ub>>
                 [] p.kind = "oob" ->
                        /\ ub' = "read_past_end"
                        /\ \/ pc' = "decode_crashed" /\ result' = result
                           \/ pc' = "returned" /\ result' \in SymSeqs(MaxGarbage)
                        /\ UNCHANGED <<tree, start, i, current>>
    /\ UNCHANGED <<little_endian, data, nodes, encoding_lut, out, file>>

\* one iteration of decode's loop.  The child pointers of a leaf are null,
\* and current->end through a null pointer is undefined: the run stops, or
\* decode returns some vector
DecodeStep ==
    /\ pc = "walk"
    /\ i < Len(bits)
    /\ LET cur == Deref(current)
           next == IF bits[i + 1] = 1 THEN cur.sub_nodes[2] ELSE cur.sub_nodes[1]
       IN  IF next = NULL
           THEN /\ ub' = "null_deref"
                /\ current' = next
                /\ \/ pc' = "decode_crashed" /\ result' = result
                   \/ pc' = "returned" /\ result' \in SymSeqs(MaxGarbage)
                /\ i' = i
           ELSE /\ IF Deref(next).end
                   THEN /\ result' = Append(result, Deref(next).values[1])
                        /\ current' = tree
                   ELSE /\ result' = result
                        /\ current' = next
                /\ i' = i + 1
                /\ UNCHANGED <<pc, ub>>
    /\ UNCHANGED <<little_endian, data, nodes, encoding_lut, out, file, bits,
                   tree, start>>

\* the loop is over: decode returns out
DecodeReturn ==
    /\ pc = "walk"
    /\ i >= Len(bits)
    /\ pc' = "returned"
    /\ UNCHANGED <<little_endian, data, nodes, encoding_lut, out, file, bits,
                   tree, start, i, current, result, ub>>

Next ==
    \/ EncodeInit
    \/ MergeStep
    \/ MergeBreak
    \/ EncodeEmit
    \/ DecodeTree
    \/ DecodeStep
    \/ DecodeReturn

Spec == Init /\ [][Next]_vars

----------------------------------------------------------------------------
(* The frame on its own: any bit vector written by write_data and read    *)
(* back by read_data                                                      *)

InitFrame ==
    /\ little_endian \in BOOLEAN
    /\ pc = "encoded"
    /\ out \in BitSeqs(MaxFrameBits)
    /\ data = <<>>
    /\ nodes = <<>>
    /\ encoding_lut = <<>>
    /\ file = <<>>
    /\ bits = <<>>
    /\ tree = NULL
    /\ start = 0
    /\ i = 0
    /\ current = NULL
    /\ result = <<>>
    /\ ub = "none"

\* hf::write_data(output_data, out_file)
WriteData ==
    /\ pc = "encoded"
    /\ file' = write_data(out, little_endian)
    /\ pc' = "written"
    /\ UNCHANGED <<little_endian, data, nodes, encoding_lut, out, bits, tree,
                   start, i, current, result, ub>>

\* input_data = hf::read_data(input_file)
ReadData ==
    /\ pc = "written"
    /\ LET r == read_data(file, little_endian)
       IN  IF r.thrown
           THEN pc' = "read_error" /\ bits' = bits
           ELSE pc' = "read" /\ bits' = r.value
    /\ UNCHANGED <<little_endian, data, nodes, encoding_lut, out, file, tree,
                   start, i, current, result, ub>>

NextFrame ==
    \/ WriteData
    \/ ReadData

SpecFrame == InitFrame /\ [][NextFrame]_vars

----------------------------------------------------------------------------
(* Properties *)

IsPrefix(s, t) == Len(s) <= Len(t) /\ SubSeq(t, 1, Len(s)) = s

Distinct(d) == Cardinality(Range(d))

EncodeDone == pc \in {"encoded", "walk", "returned", "error", "decode_crashed"}

DecodeCalled == pc \in {"walk", "returned", "error", "decode_crashed"}

\* the position after the complete serialized tree that begins at st,
\* or -1 when the bits end before the tree is complete
RECURSIVE TreeEnd(_, _)
TreeEnd(bitvec, st) ==
    IF st >= Len(bitvec) THEN -1
    ELSE IF bitvec[st + 1] = 1
         THEN (IF st + 1 + 8 * SizeofT <= Len(bitvec)
               THEN st + 1 + 8 * SizeofT ELSE -1)
         ELSE LET l == TreeEnd(bitvec, st + 1)
              IN  IF l < 0 THEN -1 ELSE TreeEnd(bitvec, l)

\* C1: decode(encode(S)) = S for every symbol sequence S, the empty one
\* and those with one distinct symbol included: once decode has been
\* called on what encode was called to produce, both calls have returned
\* and the result is S.
C1_RoundTrip ==
    (pc \in {"encode_crashed", "returned", "error", "decode_crashed"} /\ bits = out)
        => (pc = "returned" /\ ub = "none" /\ result = data)

\* C2: for S with at least two distinct symbols, decode called on
\* encode(S) builds the tree without error, starts its cursor at the
\* length of the serialized tree, emits the symbols of S in order (the
\* result is a prefix of S all along the walk) and returns S with the
\* walk back at the root.
C2_RoundTripTwoSymbols ==
    (Distinct(data) >= 2 /\ EncodeDone /\ pc # "encoded" /\ bits = out)
        => /\ pc \in {"walk", "returned"}
           /\ ub = "none"
           /\ start = (8 * SizeofT + 1) * Distinct(data) + (Distinct(data) - 1)
           /\ IsPrefix(result, data)
           /\ (pc = "returned" => result = data /\ current = tree)

C2_Witness ==
    /\ pc = "returned"
    /\ bits = out
    /\ Distinct(data) = 3
    /\ Len(data) = 4
    /\ result = data

\* C3: once the tree is built, every symbol of an input with two or more
\* distinct symbols has a code in the table, and no symbol's root-to-leaf
\* code is a prefix of the code of another symbol of the input.
C3_PrefixFree ==
    (pc = "built" \/ EncodeDone)
        => \A s \in Range(data) : \A t \in Range(data) \ {s} :
              /\ s \in DOMAIN encoding_lut
              /\ t \in DOMAIN encoding_lut
              /\ ~IsPrefix(Reverse(encoding_lut[s]), Reverse(encoding_lut[t]))

C3_Witness ==
    /\ pc = "built"
    /\ Distinct(data) = 3
    /\ \E s \in DOMAIN encoding_lut : Len(encoding_lut[s]) = 2

\* C4: read_data on the bytes write_data produced for B returns B, for
\* every bit vector B.
C4_FrameRoundTrip ==
    pc \in {"read", "read_error"} => (pc = "read" /\ bits = out)

\* On a little-endian build the frame round trip does hold.
FrameRoundTripLittleEndian ==
    (little_endian /\ pc \in {"read", "read_error"}) => (pc = "read" /\ bits = out)

\* C5: encode of the empty sequence completes without undefined behaviour
\* or a crash and returns the empty bit vector.
C5_EmptyInput ==
    data = <<>>
        => /\ pc # "encode_crashed"
           /\ ub \notin {"prev_of_begin", "deref_end"}
           /\ (EncodeDone => out = <<>>)

\* C6: when the bits given to decode end before a complete serialized
\* tree, decode fails with its error and reads nothing past the end.
C6_MalformedTree ==
    (DecodeCalled /\ TreeEnd(bits, 0) < 0)
        => (pc = "error" /\ ub = "none")

\* C7: decode does not return normally when the bits run out in the
\* middle of a code, that is with the walk at a node other than the root.
C7_TruncatedPayload ==
    (pc = "returned" /\ ub = "none") => current = tree

\* C8: at the start of every iteration of the merge loop the list is in
\* non-increasing order of frequency, the two nodes about to be removed
\* have frequencies no greater than any node left, and the loop ends with
\* exactly one node, whose frequency is the length of the input.
C8_TwoLowestMerge ==
    /\ pc = "merge" =>
          /\ \A j \in 1..Len(nodes) : \A k \in j..Len(nodes) :
                nodes[j].freq >= nodes[k].freq
          /\ \A k \in 1..(Len(nodes) - 2) :
                /\ nodes[k].freq >= nodes[Len(nodes)].freq
                /\ nodes[k].freq >= nodes[Len(nodes) - 1].freq
    /\ pc = "built" => (Len(nodes) = 1 /\ nodes[1].freq = Len(data))

\* For a non-empty input the statement of C8 holds.
TwoLowestMergeNonEmpty == (data # <<>>) => C8_TwoLowestMerge

\* a step of the merge loop that has inserted a parent
MergeStepTaken == pc = "merge" /\ pc' = "merge" /\ Len(nodes') = Len(nodes) - 1

\* the parent that step has created
NewParent == ParentNode(nodes[Len(nodes)], nodes[Len(nodes) - 1])

\* C9 as stated: the new Internal node is placed after every node of equal
\* frequency that is already in the list.
C9_AfterEqualFrequency ==
    [][MergeStepTaken =>
         \E k \in 1..Len(nodes') :
            /\ nodes'[k] = NewParent
            /\ \A j \in 1..Len(nodes') :
                  (j # k /\ nodes'[j].freq = NewParent.freq) => j < k]_vars

\* C9 amended: the new Internal node is placed before every node of equal
\* (or lower) frequency that is already in the list, and after every node
\* of greater frequency.
C9_BeforeEqualFrequency ==
    [][MergeStepTaken =>
         \E k \in 1..Len(nodes') :
            /\ nodes'[k] = NewParent
            /\ \A j \in 1..(k - 1) : nodes'[j].freq > NewParent.freq
            /\ \A j \in (k + 1)..Len(nodes') : nodes'[j].freq <= NewParent.freq]_vars

C9_Witness ==
    /\ pc = "merge"
    /\ Len(nodes) = 2
    /\ ~nodes[1].end
    /\ Len(nodes[1].values) = 2
    /\ nodes[2].end
    /\ nodes[2].freq = nodes[1].freq

\* C10: whenever decode's loop is about to follow a child pointer, the
\* node it is at is an Internal node; the child pointers of a Leaf are
\* never followed.
C10_WalkSafety ==
    /\ ub # "null_deref"
    /\ (pc = "walk" /\ i < Len(bits)) => ~Deref(current).end

====
